---- MODULE Spec2Model ----
(***************************************************************************)
(* Host resource accessors of src/lib.rs: total_num_cpus,                  *)
(* availabe_num_cpus, total_memory, available_memory, total_space and      *)
(* available_space, each a query against the sysinfo collaborator.         *)
(*                                                                         *)
(* The collaborator (the operating system as sysinfo sees it) is the os_*  *)
(* state; the caller's System handle is the sys_* state, which holds what  *)
(* the last refresh of each subsystem read.  A query is one atomic step.   *)
(*                                                                         *)
(* Numbers.  u64 is modelled as WordBits-bit unsigned (arithmetic modulo   *)
(* 2^WordBits).  A CPU usage (f32 percent) is modelled in fixed point, one *)
(* unit = 0.0001 percent, so 95.0 is 950000 and 95.0001 is 950001 (f32     *)
(* tells the two apart: its spacing near 95 is 2^-17).                     *)
(***************************************************************************)
EXTENDS Integers, Sequences, FiniteSets

\* ---------------------------------------------------------------- bounds

\* Width of the modelled u64.
WordBits == 4
\* Most cores the collaborator enumerates.
MaxCpus == 2
\* Most disk entries the collaborator enumerates.
MaxDisks == 2

Modulus == 2 ^ WordBits
Half == Modulus \div 2
U64Max == Modulus - 1

\* The literal of `cpu.cpu_usage() <= 95.0`, in units of 0.0001 percent.
Threshold == 950000

\* Usages a core may report: 10%, exactly 95.0%, 95.0001%, 100%.
UsageValues == {100000, Threshold, Threshold + 1, 1000000}
\* The usages around the threshold only.
EdgeUsages == {Threshold, Threshold + 1}

\* Byte counts the collaborator may report for memory.
MemValues == {0, 1, 2}
MemReadings == [total : MemValues, avail : MemValues]

\* Device names and byte counts of a disk entry.
DiskIds == {1, 2}
DiskBytes == {0, 1, Half}
DiskEntries == [id : DiskIds, total : DiskBytes, avail : DiskBytes]
\* One ordinary entry: a device the collaborator lists once per mount point.
PlainDisks == {[id |-> 1, total |-> 2, avail |-> 1]}

\* ----------------------------------------------------------------- state

VARIABLES
    os_cpus,    \* collaborator: per-core usage, in enumeration order
    os_mem,     \* collaborator: [total, avail] bytes of memory
    os_disks,   \* collaborator: disk entries [id, total, avail], in enumeration order
    sys_cpus,   \* System handle: the cores read by its last refresh_cpu_all
    sys_mem,    \* System handle: the memory read by its last refresh_memory
    disks,      \* the Disks list built by the call of the last step (<<>> if none)
    ret         \* [fn, res]: the call of the last step and what it returned

vars == <<os_cpus, os_mem, os_disks, sys_cpus, sys_mem, disks, ret>>

\* Result<T, String>, and a panic of the calling thread.
Ok(v) == [tag |-> "Ok", val |-> v]
Err(msg) == [tag |-> "Err", msg |-> msg]
Panic == [tag |-> "Panic"]
NoCall == [fn |-> "none", res |-> [tag |-> "None"]]

CpuFns == {"total_num_cpus", "availabe_num_cpus"}
MemFns == {"total_memory", "available_memory"}
DiskFns == {"total_space", "available_space"}

\* ------------------------------------------------------------- functions

\* lib.rs:17-21
total_num_cpus_result(cpus) ==
    IF cpus = <<>> THEN Err("cpu") ELSE Ok(Len(cpus))

IsAvailableStrict(usage) == usage < Threshold
\* lib.rs:43, the filter's predicate
IsAvailable(usage) == usage <= Threshold

RECURSIVE CountFrom(_, _)
CountFrom(cpus, n) ==
    IF cpus = <<>> THEN n
    ELSE CountFrom(Tail(cpus), IF IsAvailable(Head(cpus)) THEN n + 1 ELSE n)

CountAvailableOffByOne(cpus) == CountFrom(cpus, 1)
\* lib.rs:41-44, iter().filter(..).count()
CountAvailable(cpus) == CountFrom(cpus, 0)

availabe_num_cpus_ErrOnZero(cpus) ==
    IF cpus = <<>> \/ CountAvailable(cpus) = 0 THEN Err("cpu") ELSE Ok(CountAvailable(cpus))
\* lib.rs:37-46
availabe_num_cpus_result(cpus) ==
    IF cpus = <<>> THEN Err("cpu") ELSE Ok(CountAvailable(cpus))

\* lib.rs:61-66
total_memory_result(mem) ==
    IF mem.total = 0 THEN Err("total_memory") ELSE Ok(mem.total)

available_memory_ChecksTotal(mem) ==
    IF mem.total = 0 THEN Err("available_memory") ELSE Ok(mem.avail)
\* lib.rs:80-86
available_memory_result(mem) ==
    IF mem.avail = 0 THEN Err("available_memory") ELSE Ok(mem.avail)

\* Iterator::sum::<u64>() is a left fold with `+` from 0.  [val, overflowed]:
\* the wrapped accumulator, and whether some addition left the u64 range.
RECURSIVE SumFold(_, _)
SumFold(vals, acc) ==
    IF vals = <<>> THEN acc
    ELSE SumFold(Tail(vals),
                 [val |-> (acc.val + Head(vals)) % Modulus,
                  overflowed |-> acc.overflowed \/ acc.val + Head(vals) > U64Max])

\* The sum as the build produces it: with overflow checks on (rustc's debug
\* default) an overflowing `+` panics, with them off (the release default) it wraps.
SumU64(vals, overflow_checks) ==
    LET s == SumFold(vals, [val |-> 0, overflowed |-> FALSE])
    IN  IF s.overflowed /\ overflow_checks THEN Panic ELSE Ok(s.val)

TotalsOf(ds) == [i \in DOMAIN ds |-> ds[i].total]
AvailsOf(ds) == [i \in DOMAIN ds |-> ds[i].avail]

total_space_NoEmptyCheck(ds, overflow_checks) == SumU64(TotalsOf(ds), overflow_checks)
\* lib.rs:104-110
total_space_result(ds, overflow_checks) ==
    IF ds = <<>> THEN Err("disk") ELSE SumU64(TotalsOf(ds), overflow_checks)

\* lib.rs:127-133
available_space_result(ds, overflow_checks) ==
    IF ds = <<>> THEN Err("disk") ELSE SumU64(AvailsOf(ds), overflow_checks)

\* ------------------------------------------------------------- refreshes

\* lib.rs:15 and 35, sys.refresh_cpu_all()
refresh_cpu_all == sys_cpus' = os_cpus

refresh_memory_Skipped == sys_mem' = sys_mem
\* lib.rs:60 and 79, sys.refresh_memory()
refresh_memory == sys_mem' = os_mem

\* lib.rs:102 and 124, Disks::new_with_refreshed_list()
new_with_refreshed_list == disks' = os_disks

\* --------------------------------------------------------------- queries

total_num_cpus ==
    /\ refresh_cpu_all
    /\ ret' = [fn |-> "total_num_cpus", res |-> total_num_cpus_result(sys_cpus')]
    /\ disks' = <<>>
    /\ UNCHANGED <<os_cpus, os_mem, os_disks, sys_mem>>

availabe_num_cpus ==
    /\ refresh_cpu_all
    /\ ret' = [fn |-> "availabe_num_cpus", res |-> availabe_num_cpus_result(sys_cpus')]
    /\ disks' = <<>>
    /\ UNCHANGED <<os_cpus, os_mem, os_disks, sys_mem>>

total_memory ==
    /\ refresh_memory
    /\ ret' = [fn |-> "total_memory", res |-> total_memory_result(sys_mem')]
    /\ disks' = <<>>
    /\ UNCHANGED <<os_cpus, os_mem, os_disks, sys_cpus>>

available_memory ==
    /\ refresh_memory
    /\ ret' = [fn |-> "available_memory", res |-> available_memory_result(sys_mem')]
    /\ disks' = <<>>
    /\ UNCHANGED <<os_cpus, os_mem, os_disks, sys_cpus>>

\* `sys` is a parameter the disk queries never use.
total_space ==
    /\ new_with_refreshed_list
    /\ \E overflow_checks \in BOOLEAN :
          ret' = [fn |-> "total_space", res |-> total_space_result(disks', overflow_checks)]
    /\ UNCHANGED <<os_cpus, os_mem, os_disks, sys_cpus, sys_mem>>

available_space ==
    /\ new_with_refreshed_list
    /\ \E overflow_checks \in BOOLEAN :
          ret' = [fn |-> "available_space", res |-> available_space_result(disks', overflow_checks)]
    /\ UNCHANGED <<os_cpus, os_mem, os_disks, sys_cpus, sys_mem>>

\* ---------------------------------------------------------- collaborator

\* Between calls the host changes; the previous call's locals are gone.
Returned == disks' = <<>> /\ ret' = NoCall

CpuOnline(usages) ==
    /\ Len(os_cpus) < MaxCpus
    /\ \E u \in usages : os_cpus' = Append(os_cpus, u)
    /\ Returned
    /\ UNCHANGED <<os_mem, os_disks, sys_cpus, sys_mem>>

CpuOffline ==
    /\ os_cpus # <<>>
    /\ os_cpus' = SubSeq(os_cpus, 1, Len(os_cpus) - 1)
    /\ Returned
    /\ UNCHANGED <<os_mem, os_disks, sys_cpus, sys_mem>>

CpuLoad(usages) ==
    /\ \E i \in DOMAIN os_cpus : \E u \in usages \ {os_cpus[i]} :
          os_cpus' = [os_cpus EXCEPT ![i] = u]
    /\ Returned
    /\ UNCHANGED <<os_mem, os_disks, sys_cpus, sys_mem>>

MemChange ==
    /\ \E m \in MemReadings \ {os_mem} : os_mem' = m
    /\ Returned
    /\ UNCHANGED <<os_cpus, os_disks, sys_cpus, sys_mem>>

Mount(entries) ==
    /\ Len(os_disks) < MaxDisks
    /\ \E d \in entries : os_disks' = Append(os_disks, d)
    /\ Returned
    /\ UNCHANGED <<os_cpus, os_mem, sys_cpus, sys_mem>>

Unmount ==
    /\ os_disks # <<>>
    /\ os_disks' = SubSeq(os_disks, 1, Len(os_disks) - 1)
    /\ Returned
    /\ UNCHANGED <<os_cpus, os_mem, sys_cpus, sys_mem>>

\* -------------------------------------------------------- specifications

\* System::new(): nothing loaded yet; the collaborator has enumerated nothing.
Init ==
    /\ os_cpus = <<>>
    /\ os_mem = [total |-> 0, avail |-> 0]
    /\ os_disks = <<>>
    /\ sys_cpus = <<>>
    /\ sys_mem = [total |-> 0, avail |-> 0]
    /\ disks = <<>>
    /\ ret = NoCall

\* The CPU queries against every usage.
NextCpu ==
    \/ CpuOnline(UsageValues)
    \/ CpuOffline
    \/ CpuLoad(UsageValues)
    \/ total_num_cpus
    \/ availabe_num_cpus

SpecCpu == Init /\ [][NextCpu]_vars

\* The disk queries against every disk entry.
NextDisk ==
    \/ Mount(DiskEntries)
    \/ Unmount
    \/ total_space
    \/ available_space

SpecDisk == Init /\ [][NextDisk]_vars

\* All six queries interleaved with changes of every subsystem.
Next ==
    \/ CpuOnline(EdgeUsages)
    \/ CpuOffline
    \/ CpuLoad(EdgeUsages)
    \/ MemChange
    \/ Mount(PlainDisks)
    \/ Unmount
    \/ total_num_cpus
    \/ availabe_num_cpus
    \/ total_memory
    \/ available_memory
    \/ total_space
    \/ available_space

Spec == Init /\ [][Next]_vars

\* -------------------------------------------------- checked properties

\* The exact (unbounded) sum of a sequence of byte counts.
RECURSIVE NatSum(_)
NatSum(vals) == IF vals = <<>> THEN 0 ELSE Head(vals) + NatSum(Tail(vals))

\* The entries left when entries with one id are merged, the last seen winning.
RECURSIVE DedupLast(_)
DedupLast(ds) ==
    IF ds = <<>> THEN <<>>
    ELSE IF \E j \in 2..Len(ds) : ds[j].id = ds[1].id
         THEN DedupLast(Tail(ds))
         ELSE <<Head(ds)>> \o DedupLast(Tail(ds))

\* C1: on a non-empty CPU enumeration, the count availabe_num_cpus returns is
\* at most the count total_num_cpus returns on the same enumeration.
C1_AvailableLeTotal ==
    ret.fn = "availabe_num_cpus" /\ sys_cpus # <<>> =>
        /\ ret.res.tag = "Ok"
        /\ total_num_cpus_result(sys_cpus).tag = "Ok"
        /\ ret.res.val <= total_num_cpus_result(sys_cpus).val

\* Two cores enumerated, one of them counted as available.
C1_Witness ==
    /\ ret.fn = "availabe_num_cpus"
    /\ Len(sys_cpus) = 2
    /\ ret.res = Ok(1)

\* C2: availabe_num_cpus counts exactly the cores whose usage is at most 95.0
\* (950000 units): a core at exactly 95.0 is counted, one at 95.0001 is not.
C2_ThresholdInclusive ==
    ret.fn = "availabe_num_cpus" /\ sys_cpus # <<>> =>
        ret.res = Ok(Cardinality({i \in DOMAIN sys_cpus : sys_cpus[i] <= 950000}))

\* A core at exactly 95.0 beside a core at 95.0001: one core is counted.
C2_Witness ==
    /\ ret.fn = "availabe_num_cpus"
    /\ \E i \in DOMAIN sys_cpus : sys_cpus[i] = 950000
    /\ \E i \in DOMAIN sys_cpus : sys_cpus[i] = 950001
    /\ Len(sys_cpus) = 2
    /\ ret.res = Ok(1)

\* C3: a query whose collaborator enumerates nothing returns Err, never Ok:
\* the CPU queries on an empty CPU list, the disk queries on an empty disk
\* list; and a disk query that fails leaves the System handle as it was.
C3_EmptyIsError ==
    /\ [](/\ ret.fn \in CpuFns /\ sys_cpus = <<>> => ret.res.tag = "Err"
          /\ ret.fn \in DiskFns /\ disks = <<>> => ret.res.tag = "Err")
    /\ [][ret'.fn \in DiskFns /\ ret'.res.tag = "Err" =>
              sys_cpus' = sys_cpus /\ sys_mem' = sys_mem]_vars

\* A disk query failed on an empty disk list while the handle held readings.
C3_Witness ==
    /\ ret.fn = "total_space"
    /\ disks = <<>>
    /\ ret.res.tag = "Err"
    /\ sys_cpus # <<>>
    /\ sys_mem.total # 0

\* C4: a memory query never returns Ok(0): a reading of 0 is an Err, for the
\* total and for the available amount alike, and a reading v # 0 is Ok(v).
C4_MemoryZeroIsError ==
    /\ ret.fn = "total_memory" =>
          IF sys_mem.total = 0 THEN ret.res.tag = "Err" ELSE ret.res = Ok(sys_mem.total)
    /\ ret.fn = "available_memory" =>
          IF sys_mem.avail = 0 THEN ret.res.tag = "Err" ELSE ret.res = Ok(sys_mem.avail)

\* Total memory is non-zero, available memory is 0, and the query failed.
C4_Witness ==
    /\ ret.fn = "available_memory"
    /\ sys_mem.total # 0
    /\ sys_mem.avail = 0
    /\ ret.res.tag = "Err"

\* C5: when the per-disk values sum to more than u64 holds, the disk query
\* does not return Ok (with a value wrapped modulo 2^64).
C5_OverflowIsError ==
    /\ ret.fn = "total_space" /\ NatSum(TotalsOf(disks)) > U64Max => ret.res.tag # "Ok"
    /\ ret.fn = "available_space" /\ NatSum(AvailsOf(disks)) > U64Max => ret.res.tag # "Ok"

\* C6: a disk query over a non-empty disk list whose values sum to 0 returns
\* an error, not Ok(0).
C6_DiskZeroIsError ==
    /\ ret.fn = "total_space" /\ disks # <<>> /\ NatSum(TotalsOf(disks)) = 0 =>
          ret.res.tag = "Err"
    /\ ret.fn = "available_space" /\ disks # <<>> /\ NatSum(AvailsOf(disks)) = 0 =>
          ret.res.tag = "Err"

\* C7: an available amount returned as Ok is at most the total of the same
\* sample: a reading with available above total is not returned as a success.
C7_AvailableWithinTotal ==
    /\ ret.fn = "available_memory" /\ ret.res.tag = "Ok" => ret.res.val <= sys_mem.total
    /\ ret.fn = "available_space" /\ ret.res.tag = "Ok" =>
          NatSum(AvailsOf(disks)) <= NatSum(TotalsOf(disks))

\* C8: every query reads what its own refresh has just fetched: the handle
\* (or the Disks list) holds the collaborator's state of the moment of the
\* call, and the value returned is the one computed from that state.
C8_RefreshBeforeRead ==
    [][/\ ret'.fn \in CpuFns => sys_cpus' = os_cpus
       /\ ret'.fn = "total_num_cpus" => ret'.res = total_num_cpus_result(os_cpus)
       /\ ret'.fn = "availabe_num_cpus" => ret'.res = availabe_num_cpus_result(os_cpus)
       /\ ret'.fn \in MemFns => sys_mem' = os_mem
       /\ ret'.fn = "total_memory" => ret'.res = total_memory_result(os_mem)
       /\ ret'.fn = "available_memory" => ret'.res = available_memory_result(os_mem)
       /\ ret'.fn \in DiskFns => disks' = os_disks
       /\ ret'.fn = "total_space" =>
             \E oc \in BOOLEAN : ret'.res = total_space_result(os_disks, oc)
       /\ ret'.fn = "available_space" =>
             \E oc \in BOOLEAN : ret'.res = available_space_result(os_disks, oc)]_vars

\* A memory query returned the collaborator's present value after the
\* collaborator had moved on from what the handle read earlier.
C8_Witness ==
    /\ ret.fn = "available_memory"
    /\ ret.res = Ok(os_mem.avail)
    /\ sys_cpus # <<>>
    /\ sys_cpus # os_cpus

\* C9: the disk sums count each id once, the last entry seen for it: an
\* Ok result (of a sum that stays in range) is the sum over the merged entries.
C9_DedupById ==
    /\ ret.fn = "total_space" /\ ret.res.tag = "Ok" /\ NatSum(TotalsOf(disks)) <= U64Max =>
          ret.res.val = NatSum(TotalsOf(DedupLast(disks)))
    /\ ret.fn = "available_space" /\ ret.res.tag = "Ok" /\ NatSum(AvailsOf(disks)) <= U64Max =>
          ret.res.val = NatSum(AvailsOf(DedupLast(disks)))

\* C10: availabe_num_cpus fails exactly on an empty CPU list and returns
\* Ok(0) when every core is above 95.0, while an Ok of total_num_cpus,
\* total_memory or available_memory is strictly positive.
C10_AvailableMayBeZero ==
    /\ ret.fn = "availabe_num_cpus" => (ret.res.tag = "Err" <=> sys_cpus = <<>>)
    /\ ret.fn = "availabe_num_cpus" /\ sys_cpus # <<>>
          /\ (\A i \in DOMAIN sys_cpus : sys_cpus[i] > 950000) => ret.res = Ok(0)
    /\ ret.fn \in {"total_num_cpus", "total_memory", "available_memory"}
          /\ ret.res.tag = "Ok" => ret.res.val > 0

\* Every enumerated core is above 95.0 and availabe_num_cpus returned Ok(0).
C10_Witness ==
    /\ ret.fn = "availabe_num_cpus"
    /\ sys_cpus # <<>>
    /\ \A i \in DOMAIN sys_cpus : sys_cpus[i] > 950000
    /\ ret.res = Ok(0)

====
